---- MODULE Spec2Model ----
(***************************************************************************)
(* Bubble-sort visualizer: the history generators of algorithms.js and the *)
(* playback controller of controller.js.                                   *)
(*                                                                         *)
(* Positions stored in frames (indices, index, sortedIndices) and the      *)
(* cursor currentStep are 0-based as in the JavaScript source; TLA+        *)
(* sequences are 1-based, so element k of a JavaScript array a is a[k+1].  *)
(***************************************************************************)
EXTENDS Integers, Sequences, FiniteSets, TLC

(***************************************************************************)
(* Bounds of the model.                                                    *)
(***************************************************************************)
\* number of values k/RandomLevels, k = 0..RandomLevels-1, that Math.random()
\* takes in Spec
RandomLevels == 8
\* longest input and largest value handed directly to a generator in GenSpec
MaxLen == 4
MaxInputVal == 3
\* largest value typed into the size input in Spec
MaxSizeInput == 5
\* number of values k/RandomGrain that Math.random() takes, and the largest
\* size asked for, when generateRandomArray is called directly in RandSpec
RandomGrain == 100
MaxRandomSize == 2

(***************************************************************************)
(* Program constants.                                                      *)
(***************************************************************************)
MinSize == 5
MaxSize == 100
maxDelay == 500
minDelay == 1

\* a property that a JavaScript object does not have (frame.index of the
\* initial, comparison and swap frames), and parseInt of a non-numeric text
Undefined == -1
NaN == -2

(***************************************************************************)
(* algorithms.js                                                           *)
(***************************************************************************)

\* Array.prototype.includes
Includes(s, k) == \E x \in 1..Len(s) : s[x] = k

\* Array.from({ length: n }, (_, idx) => idx)
IndexRange(n) == [x \in 1..n |-> x - 1]

\* an initial frame that marks every position as touched
InitialFrameAllTouched(a) ==
  [type |-> "initial", array |-> a, indices |-> IndexRange(Len(a)),
   sortedIndices |-> <<>>, index |-> Undefined]

InitialFrame(a) ==
  [type |-> "initial", array |-> a, indices |-> <<>>,
   sortedIndices |-> <<>>, index |-> Undefined]

ComparisonFrame(a, sorted, j) ==
  [type |-> "comparison", array |-> a, indices |-> <<j, j + 1>>,
   sortedIndices |-> sorted, index |-> Undefined]

\* a swap frame pushed under the type of the comparison frame
SwapFrameAsComparison(a, sorted, j) ==
  [type |-> "comparison", array |-> a, indices |-> <<j, j + 1>>,
   sortedIndices |-> sorted, index |-> Undefined]

SwapFrame(a, sorted, j) ==
  [type |-> "swap", array |-> a, indices |-> <<j, j + 1>>,
   sortedIndices |-> sorted, index |-> Undefined]

FinalizedFrame(a, sorted, idx, touched) ==
  [type |-> "finalized", array |-> a, indices |-> touched,
   sortedIndices |-> sorted, index |-> idx]

\* the exchange written without the temporary: the left value is lost
SwapAdjacentNoTemp(a, j) ==
  [a EXCEPT ![j + 1] = a[j + 2]]

\* the copy of the snapshot with positions j and j+1 exchanged
SwapAdjacent(a, j) ==
  [a EXCEPT ![j + 1] = a[j + 2], ![j + 2] = a[j + 1]]

(* ---------------- generateBubbleSortHistory ---------------- *)

\* the plain check made non-strict, Left >= Right
BubbleOutOfOrderOrEqual(a, j) == a[j + 1] >= a[j + 2]

\* the check "Left > Right" of the plain generator
BubbleOutOfOrder(a, j) == a[j + 1] > a[j + 2]

\* an inner loop that forgets the finalized tail: j < n - 1
BubbleInnerLimitFull(n, i) == n - 1

\* the bound of the inner loop, j < n - i - 1
BubbleInnerLimit(n, i) == n - i - 1

\* one iteration of the inner loop body: comparison frame, then the swap
BubbleCompareSwap(st, j) ==
  LET cmp == Append(st.log, ComparisonFrame(st.arr, st.sorted, j))
  IN  IF BubbleOutOfOrder(st.arr, j)
      THEN LET b == SwapAdjacent(st.arr, j)
           IN  [st EXCEPT !.arr = b,
                          !.log = Append(cmp, SwapFrame(b, st.sorted, j))]
      ELSE [st EXCEPT !.log = cmp]

RECURSIVE BubbleInner(_, _, _, _)
BubbleInner(st, n, i, j) ==
  IF j < BubbleInnerLimit(n, i)
  THEN BubbleInner(BubbleCompareSwap(st, j), n, i, j + 1)
  ELSE st

\* a finalize that counts the position from n instead of n-1
BubbleFinalizeOffByOne(st, n, i) ==
  LET finalizedIndex == n - i
      newSorted == Append(st.sorted, finalizedIndex)
  IN  [st EXCEPT !.sorted = newSorted,
                 !.log = Append(st.log, FinalizedFrame(st.arr, newSorted,
                                    finalizedIndex, <<finalizedIndex>>))]

\* end of an outer pass: position n-i-1 is finalized
BubbleFinalize(st, n, i) ==
  LET finalizedIndex == n - i - 1
      newSorted == Append(st.sorted, finalizedIndex)
  IN  [st EXCEPT !.sorted = newSorted,
                 !.log = Append(st.log, FinalizedFrame(st.arr, newSorted,
                                    finalizedIndex, <<finalizedIndex>>))]

RECURSIVE BubbleOuter(_, _, _)
BubbleOuter(st, n, i) ==
  IF i < n - 1
  THEN BubbleOuter(BubbleFinalize(BubbleInner(st, n, i, 0), n, i), n, i + 1)
  ELSE st

\* "Final Step: 0 is sorted"
BubbleTail(st) ==
  LET finalSorted == Append(st.sorted, 0)
  IN  [st EXCEPT !.sorted = finalSorted,
                 !.log = Append(st.log,
                            FinalizedFrame(st.arr, finalSorted, 0, <<0>>))]

generateBubbleSortHistory(arr) ==
  LET st0 == [log |-> <<InitialFrame(arr)>>, arr |-> arr, sorted |-> <<>>,
              swapped |-> FALSE, exited |-> FALSE]
  IN  BubbleTail(BubbleOuter(st0, Len(arr), 0)).log

(* ------------- generateOptimizedBubbleSortHistory ------------- *)

\* the comparison turned round, Left < Right
OptimizedOutOfOrderReversed(a, j) == a[j + 1] < a[j + 2]

\* the comparison made non-strict, Left >= Right
OptimizedOutOfOrderOrEqual(a, j) == a[j + 1] >= a[j + 2]

\* the check "Left > Right" of the optimized generator
OptimizedOutOfOrder(a, j) == a[j + 1] > a[j + 2]

\* an inner loop body that records a comparison only when it swaps
OptimizedCompareSwapQuiet(st, j) ==
  LET cmp == Append(st.log, ComparisonFrame(st.arr, st.sorted, j))
  IN  IF OptimizedOutOfOrder(st.arr, j)
      THEN LET b == SwapAdjacent(st.arr, j)
           IN  [st EXCEPT !.arr = b, !.swapped = TRUE,
                          !.log = Append(cmp, SwapFrame(b, st.sorted, j))]
      ELSE st

OptimizedCompareSwap(st, j) ==
  LET cmp == Append(st.log, ComparisonFrame(st.arr, st.sorted, j))
  IN  IF OptimizedOutOfOrder(st.arr, j)
      THEN LET b == SwapAdjacent(st.arr, j)
           IN  [st EXCEPT !.arr = b, !.swapped = TRUE,
                          !.log = Append(cmp, SwapFrame(b, st.sorted, j))]
      ELSE [st EXCEPT !.log = cmp]

RECURSIVE OptimizedInner(_, _, _, _)
OptimizedInner(st, n, i, j) ==
  IF j < n - i - 1
  THEN OptimizedInner(OptimizedCompareSwap(st, j), n, i, j + 1)
  ELSE st

\* a finalize that marks the front position i instead of n-i-1
OptimizedFinalizeFromFront(st, n, i) ==
  LET finalizedIndex == i
      newSorted == Append(st.sorted, finalizedIndex)
  IN  [st EXCEPT !.sorted = newSorted,
                 !.log = Append(st.log, FinalizedFrame(st.arr, newSorted,
                                    finalizedIndex, <<finalizedIndex>>))]

\* "Finalize one element"
OptimizedFinalize(st, n, i) ==
  LET finalizedIndex == n - i - 1
      newSorted == Append(st.sorted, finalizedIndex)
  IN  [st EXCEPT !.sorted = newSorted,
                 !.log = Append(st.log, FinalizedFrame(st.arr, newSorted,
                                    finalizedIndex, <<finalizedIndex>>))]

\* for (k = 0; k < finalizedIndex; k++) if (!includes(k)) push(k)
RECURSIVE FillRemaining(_, _, _)
FillRemaining(sorted, k, finalizedIndex) ==
  IF k < finalizedIndex
  THEN FillRemaining(IF Includes(sorted, k) THEN sorted ELSE Append(sorted, k),
                     k + 1, finalizedIndex)
  ELSE sorted

\* an early exit that records the bulk frame without filling in the prefix
OptimizedEarlyExitNoFill(st, n, i) ==
  [st EXCEPT !.exited = TRUE,
             !.log = Append(st.log, FinalizedFrame(st.arr, st.sorted,
                                0, IndexRange(n)))]

\* an early exit that rebuilds the sorted list as 0..n-1 instead of
\* appending to the copy
OptimizedEarlyExitRebuilt(st, n, i) ==
  [st EXCEPT !.sorted = IndexRange(n), !.exited = TRUE,
             !.log = Append(st.log, FinalizedFrame(st.arr, IndexRange(n),
                                0, IndexRange(n)))]

\* the EARLY EXIT block: the bulk finalized frame, then break
OptimizedEarlyExit(st, n, i) ==
  LET finalizedIndex == n - i - 1
      exitSorted == FillRemaining(st.sorted, 0, finalizedIndex)
  IN  [st EXCEPT !.sorted = exitSorted, !.exited = TRUE,
                 !.log = Append(st.log, FinalizedFrame(st.arr, exitSorted,
                                    0, IndexRange(n)))]

\* a pass flag that is never consulted
NoSwapInPassNever(pass) == FALSE

\* if (!swappedInThisPass)
NoSwapInPass(pass) == ~pass.swapped

RECURSIVE OptimizedOuter(_, _, _)
OptimizedOuter(st, n, i) ==
  IF i < n - 1
  THEN LET pass == OptimizedFinalize(
                     OptimizedInner([st EXCEPT !.swapped = FALSE], n, i, 0),
                     n, i)
       IN  IF NoSwapInPass(pass)
           THEN OptimizedEarlyExit(pass, n, i)
           ELSE OptimizedOuter(pass, n, i + 1)
  ELSE st

\* the tail step of the plain generator, without the includes(0) guard
OptimizedTailUnguarded(st) ==
  LET finalSorted == Append(st.sorted, 0)
  IN  [st EXCEPT !.sorted = finalSorted,
                 !.log = Append(st.log,
                            FinalizedFrame(st.arr, finalSorted, 0, <<0>>))]

\* "Finalize first element if not early exit"
OptimizedTail(st) ==
  IF ~Includes(st.sorted, 0)
  THEN LET finalSorted == Append(st.sorted, 0)
       IN  [st EXCEPT !.sorted = finalSorted,
                      !.log = Append(st.log,
                                 FinalizedFrame(st.arr, finalSorted, 0, <<0>>))]
  ELSE st

generateOptimizedBubbleSortHistory(arr) ==
  LET st0 == [log |-> <<InitialFrame(arr)>>, arr |-> arr, sorted |-> <<>>,
              swapped |-> FALSE, exited |-> FALSE]
  IN  OptimizedTail(OptimizedOuter(st0, Len(arr), 0)).log

(***************************************************************************)
(* controller.js                                                           *)
(***************************************************************************)

VARIABLES
  ARRAY_SIZE,        \* clamped size of the last init()
  rngState,          \* hidden state of Math.random()
  array,             \* the master data
  sortingHistory,    \* the script
  currentStep,       \* the cursor
  isPlaying,         \* the running flag
  timeoutId,         \* id returned by the last setTimeout, NoTimer for null
  timers,            \* ids of the setTimeout(loop) callbacks still pending
  timerDelay,        \* 100 * delay of the last setTimeout
  optimizedChecked,  \* optimizedCheckbox.checked
  speedValue,        \* speedSlider.value
  lastOp,            \* the handler that ran last
  rendered,          \* positions of the frames renderStep drew in that handler
  tones,             \* audioManager tones dispatched in that handler
  waves              \* triggerCompletionWave calls of that handler

vars == <<ARRAY_SIZE, rngState, array, sortingHistory, currentStep, isPlaying, timeoutId,
          timers, timerDelay, optimizedChecked, speedValue, lastOp, rendered,
          tones, waves>>

NoTimer == 0

\* what the user can type into the size box: text, a value below the
\* minimum, and the values from the minimum up to the bound
SizeInputs == {NaN, 0} \cup (MinSize..MaxSizeInput)

\* positions of the speed slider the model moves between
DialValues == {1, 100}

\* the size validation of init()
clampSize(v) ==
  LET s1 == IF v # NaN /\ v > MaxSize THEN MaxSize ELSE v
  IN  IF s1 # NaN /\ s1 < MinSize THEN MinSize ELSE s1

\* Math.random() is a deterministic generator over a hidden state; in state
\* x it returns x / RandomLevels, a real of [0, 1), and moves to the state
\* below (a linear congruential step)
nextRandom(x) == (5 * x + 3) % RandomLevels

\* Math.floor(Math.random() * 99) + 1 in generator state x
randomNum(x) == (x * 99) \div RandomLevels + 1

\* generateRandomArray(size) from generator state x: the array and the state
\* the generator is left in; i < NaN is false, so a NaN size never iterates
RECURSIVE randomLoop(_, _, _, _)
randomLoop(newArray, i, size, x) ==
  IF size # NaN /\ i < size
  THEN randomLoop(Append(newArray, randomNum(x)), i + 1, size, nextRandom(x))
  ELSE [arr |-> newArray, rng |-> x]

generateRandomArray(size, x) == randomLoop(<<>>, 0, size, x)

\* a pause() that leaves the pending callback alone
clearTimeoutForgotten(ts, id) == ts

\* clearTimeout(timeoutId) guarded by if (timeoutId)
clearTimeout(ts, id) == IF id # NoTimer THEN ts \ {id} ELSE ts

\* setTimeout returns an id no earlier call returned; only the pending ids
\* and the remembered one can be told apart from it
setTimeout(ts, id) ==
  CHOOSE t \in 1..(Cardinality(ts) + 2) :
    /\ t \notin ts \cup {id}
    /\ \A u \in 1..(t - 1) : u \in ts \cup {id}

\* a delay scaled from maxDelay down to 0 instead of down to minDelay
delayScaledToZero(speed) == 100 * maxDelay - speed * maxDelay

\* 100 * (maxDelay - (speed / 100) * (maxDelay - minDelay))
delayScaled(speed) == 100 * maxDelay - speed * (maxDelay - minDelay)

\* a swap frame that sounds like a comparison
frameTonesSwapAsCompare(frame) ==
  (IF frame.type = "comparison" THEN <<"playCompare">> ELSE <<>>)
  \o (IF frame.type = "swap" THEN <<"playCompare">> ELSE <<>>)
  \o (IF frame.type = "finalized" THEN <<"playSorted">> ELSE <<>>)

\* the sound effects of the frame entered by loop()
frameTones(frame) ==
  (IF frame.type = "comparison" THEN <<"playCompare">> ELSE <<>>)
  \o (IF frame.type = "swap" THEN <<"playSwap">> ELSE <<>>)
  \o (IF frame.type = "finalized" THEN <<"playSorted">> ELSE <<>>)

\* what renderStep(h[k]) draws: nothing when the frame is missing
renderStep(h, k) == IF k + 1 \in 1..Len(h) THEN <<k>> ELSE <<>>

\* a calculateHistory() that never looks at the checkbox
historyForPlainOnly(a, useOptimized) == generateBubbleSortHistory(a)

\* the history chosen by the checkbox in calculateHistory()
historyFor(a, useOptimized) ==
  IF useOptimized THEN generateOptimizedBubbleSortHistory(a)
  ELSE generateBubbleSortHistory(a)

\* calculateHistory() on master data a with the checkbox at useOptimized
calculateHistory(a, useOptimized) ==
  LET h == historyFor(a, useOptimized)
  IN  /\ isPlaying' = FALSE
      /\ timers' = clearTimeout(timers, timeoutId)
      /\ sortingHistory' = h
      /\ currentStep' = 0
      /\ rendered' = renderStep(h, 0)
      /\ tones' = <<>>
      /\ waves' = 0
      /\ UNCHANGED <<timeoutId, timerDelay, speedValue>>

\* init(): the "New Array" button, a change of the size box, and page load
init ==
  \E v \in SizeInputs :
    LET g == generateRandomArray(clampSize(v), rngState)
    IN  /\ ARRAY_SIZE' = clampSize(v)
        /\ array' = g.arr
        /\ rngState' = g.rng
        /\ calculateHistory(g.arr, optimizedChecked)
        /\ lastOp' = "init"
        /\ UNCHANGED optimizedChecked

\* the listeners are wired, and the page is interactive, once the script
\* has run to its last statement, the startup init()
Started == lastOp # "none"

\* a checkbox wired to init() instead of calculateHistory(): new numbers
toggleOptimizedRegenerates ==
  /\ Started
  /\ optimizedChecked' = ~optimizedChecked
  /\ LET g == generateRandomArray(ARRAY_SIZE, rngState)
     IN  /\ array' = g.arr
         /\ rngState' = g.rng
         /\ calculateHistory(g.arr, ~optimizedChecked)
  /\ lastOp' = "calculateHistory"
  /\ UNCHANGED ARRAY_SIZE

\* a change of the "Optimized" checkbox
toggleOptimized ==
  /\ Started
  /\ optimizedChecked' = ~optimizedChecked
  /\ calculateHistory(array, ~optimizedChecked)
  /\ lastOp' = "calculateHistory"
  /\ UNCHANGED <<ARRAY_SIZE, rngState, array>>

\* a pause() that only lowers the flag
pauseFlagOnly ==
  /\ isPlaying' = FALSE
  /\ rendered' = <<>>
  /\ tones' = <<>>
  /\ waves' = 0
  /\ UNCHANGED <<currentStep, timeoutId, timerDelay, timers>>

\* pause()
pause ==
  /\ isPlaying' = FALSE
  /\ timers' = clearTimeout(timers, timeoutId)
  /\ rendered' = <<>>
  /\ tones' = <<>>
  /\ waves' = 0
  /\ UNCHANGED <<currentStep, timeoutId, timerDelay>>

\* a test for more frames that stops one frame early
hasMoreFramesShort(step, len) == step < len - 2

\* "Are there more frames left?"
hasMoreFrames(step, len) == step < len - 1

\* a loop() that draws the frame before it moves the cursor
loopRendersBeforeIncrement(step, playing, ts) ==
  IF ~playing
  THEN /\ currentStep' = step
       /\ isPlaying' = playing
       /\ timers' = ts
       /\ rendered' = <<>>
       /\ tones' = <<>>
       /\ waves' = 0
       /\ UNCHANGED <<timeoutId, timerDelay>>
  ELSE IF hasMoreFrames(step, Len(sortingHistory))
  THEN /\ currentStep' = step + 1
       /\ rendered' = <<step>>
       /\ tones' = frameTones(sortingHistory[step + 2])
       /\ timeoutId' = setTimeout(ts, timeoutId)
       /\ timers' = ts \cup {setTimeout(ts, timeoutId)}
       /\ timerDelay' = delayScaled(speedValue)
       /\ isPlaying' = playing
       /\ waves' = 0
  ELSE /\ currentStep' = step
       /\ isPlaying' = FALSE
       /\ timers' = clearTimeout(ts, timeoutId)
       /\ rendered' = <<>>
       /\ tones' = <<>>
       /\ waves' = 1
       /\ UNCHANGED <<timeoutId, timerDelay>>

\* loop() entered with the cursor at step, the flag at playing and the
\* pending callbacks ts
loop(step, playing, ts) ==
  IF ~playing
  THEN /\ currentStep' = step
       /\ isPlaying' = playing
       /\ timers' = ts
       /\ rendered' = <<>>
       /\ tones' = <<>>
       /\ waves' = 0
       /\ UNCHANGED <<timeoutId, timerDelay>>
  ELSE IF hasMoreFrames(step, Len(sortingHistory))
  THEN /\ currentStep' = step + 1
       /\ rendered' = <<step + 1>>
       /\ tones' = frameTones(sortingHistory[step + 2])
       /\ timeoutId' = setTimeout(ts, timeoutId)
       /\ timers' = ts \cup {setTimeout(ts, timeoutId)}
       /\ timerDelay' = delayScaled(speedValue)
       /\ isPlaying' = playing
       /\ waves' = 0
  ELSE /\ currentStep' = step
       /\ isPlaying' = FALSE
       /\ timers' = clearTimeout(ts, timeoutId)
       /\ rendered' = <<>>
       /\ tones' = <<>>
       /\ waves' = 1
       /\ UNCHANGED <<timeoutId, timerDelay>>

\* a play() without the restart
playStartNoRestart(step, len) == step

\* a restart test written with > instead of >=
playStartOffByOne(step, len) == IF step > len - 1 THEN 0 ELSE step

\* the restart of play(): a cursor at the end goes back to the beginning
playStart(step, len) == IF step >= len - 1 THEN 0 ELSE step

\* play()
play ==
  loop(playStart(currentStep, Len(sortingHistory)), TRUE, timers)

\* the Play/Pause button
togglePlay ==
  /\ Started
  /\ \/ isPlaying /\ pause /\ lastOp' = "pause"
     \/ ~isPlaying /\ play /\ lastOp' = "play"
  /\ UNCHANGED <<ARRAY_SIZE, rngState, array, sortingHistory, optimizedChecked,
                 speedValue>>

\* a pending setTimeout(loop, delay) fires
timerFires ==
  \E t \in timers :
    /\ loop(currentStep, isPlaying, timers \ {t})
    /\ lastOp' = "loop"
    /\ UNCHANGED <<ARRAY_SIZE, rngState, array, sortingHistory, optimizedChecked,
                   speedValue>>

\* a stepForward() without the end check
forwardStepUnchecked(step, len) == step + 1

\* the cursor after stepForward() / stepBack()
forwardStep(step, len) == IF step < len - 1 THEN step + 1 ELSE step

\* a stepBack() without the start check
backStepUnchecked(step) == step - 1

backStep(step) == IF step > 0 THEN step - 1 ELSE step

stepForward ==
  /\ Started
  /\ isPlaying' = FALSE
  /\ timers' = clearTimeout(timers, timeoutId)
  /\ currentStep' = forwardStep(currentStep, Len(sortingHistory))
  /\ rendered' = IF currentStep < Len(sortingHistory) - 1
                 THEN <<currentStep'>> ELSE <<>>
  /\ tones' = <<>>
  /\ waves' = 0
  /\ lastOp' = "stepForward"
  /\ UNCHANGED <<ARRAY_SIZE, rngState, array, sortingHistory, optimizedChecked,
                 speedValue, timeoutId, timerDelay>>

stepBack ==
  /\ Started
  /\ isPlaying' = FALSE
  /\ timers' = clearTimeout(timers, timeoutId)
  /\ currentStep' = backStep(currentStep)
  /\ rendered' = IF currentStep > 0 THEN <<currentStep'>> ELSE <<>>
  /\ tones' = <<>>
  /\ waves' = 0
  /\ lastOp' = "stepBack"
  /\ UNCHANGED <<ARRAY_SIZE, rngState, array, sortingHistory, optimizedChecked,
                 speedValue, timeoutId, timerDelay>>

reset ==
  /\ Started
  /\ isPlaying' = FALSE
  /\ timers' = clearTimeout(timers, timeoutId)
  /\ currentStep' = 0
  /\ rendered' = renderStep(sortingHistory, 0)
  /\ tones' = <<>>
  /\ waves' = 0
  /\ lastOp' = "reset"
  /\ UNCHANGED <<ARRAY_SIZE, rngState, array, sortingHistory, optimizedChecked,
                 speedValue, timeoutId, timerDelay>>

\* a slider whose listener reschedules the pending advance with the new delay
setSpeedReschedules ==
  /\ Started
  /\ \E d \in DialValues :
       /\ d # speedValue
       /\ speedValue' = d
       /\ timerDelay' = IF timers # {} THEN delayScaled(d) ELSE timerDelay
  /\ UNCHANGED <<ARRAY_SIZE, rngState, array, sortingHistory, currentStep, isPlaying,
                 timeoutId, timers, optimizedChecked, lastOp,
                 rendered, tones, waves>>

\* the user drags the speed slider; no listener is attached to it
setSpeed ==
  /\ Started
  /\ \E d \in DialValues : d # speedValue /\ speedValue' = d
  /\ UNCHANGED <<ARRAY_SIZE, rngState, array, sortingHistory, currentStep, isPlaying,
                 timeoutId, timers, timerDelay, optimizedChecked, lastOp,
                 rendered, tones, waves>>

\* module scope of controller.js before the startup init()
Init ==
  /\ ARRAY_SIZE = 20
  /\ rngState \in 0..(RandomLevels - 1)
  /\ array = <<>>
  /\ sortingHistory = <<>>
  /\ currentStep = 0
  /\ isPlaying = FALSE
  /\ timeoutId = NoTimer
  /\ timers = {}
  /\ timerDelay = 0
  /\ optimizedChecked \in BOOLEAN
  /\ speedValue \in DialValues
  /\ lastOp = "none"
  /\ rendered = <<>>
  /\ tones = <<>>
  /\ waves = 0

Next ==
  \/ init
  \/ toggleOptimized
  \/ togglePlay
  \/ timerFires
  \/ stepForward
  \/ stepBack
  \/ reset
  \/ setSpeed

Spec == Init /\ [][Next]_vars

(***************************************************************************)
(* A user who leaves a run alone: the handlers are only invoked while      *)
(* nothing is playing, and a scheduled callback eventually fires (the      *)
(* event loop runs every timer that is not cleared).                       *)
(***************************************************************************)

userLoads == ~isPlaying /\ (init \/ toggleOptimized)
userPlays == ~isPlaying /\ togglePlay
userSteps == ~isPlaying /\ (stepForward \/ stepBack \/ reset \/ setSpeed)

LiveNext == userLoads \/ userPlays \/ userSteps \/ timerFires

LiveSpec == Init /\ [][LiveNext]_vars /\ WF_vars(timerFires)

(***************************************************************************)
(* The playback handlers invoked while sortingHistory is still empty,      *)
(* that is from the module scope state without the startup init().         *)
(***************************************************************************)

IdleInit ==
  /\ ARRAY_SIZE = 20
  /\ rngState \in 0..(RandomLevels - 1)
  /\ array = <<>>
  /\ sortingHistory = <<>>
  /\ currentStep = 0
  /\ isPlaying = FALSE
  /\ timeoutId = NoTimer
  /\ timers = {}
  /\ timerDelay = 0
  /\ optimizedChecked \in BOOLEAN
  /\ speedValue \in DialValues
  /\ lastOp = "unloaded"
  /\ rendered = <<>>
  /\ tones = <<>>
  /\ waves = 0

IdleNext == togglePlay \/ stepForward \/ stepBack \/ reset

IdleSpec == IdleInit /\ [][IdleNext]_vars

(***************************************************************************)
(* The generators called directly on every input up to the bounds.         *)
(***************************************************************************)

RECURSIVE SeqsUpTo(_, _)
SeqsUpTo(len, S) ==
  IF len = 0 THEN {<<>>}
  ELSE SeqsUpTo(len - 1, S) \cup [1..len -> S]

\* the input of the worked scenario, on top of the small inputs
ScenarioInputs == {<<5, 3, 8, 1>>}

GenInit ==
  /\ ARRAY_SIZE = 20
  /\ rngState = 0
  /\ array \in SeqsUpTo(MaxLen, 1..MaxInputVal) \cup ScenarioInputs
  /\ sortingHistory = <<>>
  /\ currentStep = 0
  /\ isPlaying = FALSE
  /\ timeoutId = NoTimer
  /\ timers = {}
  /\ timerDelay = 0
  /\ optimizedChecked = FALSE
  /\ speedValue = 1
  /\ lastOp = "none"
  /\ rendered = <<>>
  /\ tones = <<>>
  /\ waves = 0

callBubble ==
  /\ lastOp = "none"
  /\ sortingHistory' = generateBubbleSortHistory(array)
  /\ optimizedChecked' = FALSE
  /\ lastOp' = "generateBubbleSortHistory"
  /\ UNCHANGED <<ARRAY_SIZE, rngState, array, currentStep, isPlaying, timeoutId, timers,
                 timerDelay, speedValue, rendered, tones, waves>>

callOptimized ==
  /\ lastOp = "none"
  /\ sortingHistory' = generateOptimizedBubbleSortHistory(array)
  /\ optimizedChecked' = TRUE
  /\ lastOp' = "generateOptimizedBubbleSortHistory"
  /\ UNCHANGED <<ARRAY_SIZE, rngState, array, currentStep, isPlaying, timeoutId, timers,
                 timerDelay, speedValue, rendered, tones, waves>>

GenNext == callBubble \/ callOptimized

GenSpec == GenInit /\ [][GenNext]_vars

(***************************************************************************)
(* The generators at the level of references.  A snapshot is an array on   *)
(* a heap, heap[r] being the contents of the array with reference r; a     *)
(* frame holds the references of its array and of its sortedIndices, and,  *)
(* for the record, the contents both had when the frame was pushed.  The   *)
(* caller's array has reference CallerRef.                                 *)
(***************************************************************************)

CallerRef == 1

\* a spread that hands back the array itself instead of a copy
spreadAliased(heap, r) == [heap |-> heap, ref |-> r]

\* [...x]: a new array with the contents of the array r
spread(heap, r) == [heap |-> Append(heap, heap[r]), ref |-> Len(heap) + 1]

\* []: a new empty array
emptyArray(heap) == [heap |-> Append(heap, <<>>), ref |-> Len(heap) + 1]

\* temp = x[j]; x[j] = x[j + 1]; x[j + 1] = temp, on the array r
swapInPlace(heap, r, j) == [heap EXCEPT ![r] = SwapAdjacent(heap[r], j)]

\* x.push(v), on the array r
pushInPlace(heap, r, v) == [heap EXCEPT ![r] = Append(heap[r], v)]

\* historyLog.push({type, array, indices, sortedIndices, index})
RefFrame(heap, type, arrayRef, sortedRef, touched, idx) ==
  [type |-> type, arrayRef |-> arrayRef, sortedRef |-> sortedRef,
   indices |-> touched, index |-> idx,
   arrayAtPush |-> heap[arrayRef], sortedAtPush |-> heap[sortedRef]]

\* what a reader of the returned history finds in a frame
ReadFrame(heap, f) ==
  [type |-> f.type, array |-> heap[f.arrayRef], indices |-> f.indices,
   sortedIndices |-> heap[f.sortedRef], index |-> f.index,
   arrayRef |-> f.arrayRef, sortedRef |-> f.sortedRef,
   arrayAtPush |-> f.arrayAtPush, sortedAtPush |-> f.sortedAtPush]

\* the state both generators start their loops in: the copy of the input,
\* the empty sorted list, and the initial frame
RefStart(arr) ==
  LET c == spread(<<arr>>, CallerRef)
      e == emptyArray(c.heap)
  IN  [heap |-> e.heap, cur |-> c.ref, srt |-> e.ref,
       log |-> <<RefFrame(e.heap, "initial", c.ref, e.ref, <<>>, Undefined)>>,
       swapped |-> FALSE, exited |-> FALSE]

\* return historyLog, with what the call left in the caller's array
RefReturn(st) ==
  [history |-> [p \in 1..Len(st.log) |-> ReadFrame(st.heap, st.log[p])],
   caller |-> st.heap[CallerRef]]

(* ---------------- generateBubbleSortHistory ---------------- *)

RefBubbleCompareSwap(st, j) ==
  LET cmp == Append(st.log, RefFrame(st.heap, "comparison", st.cur, st.srt,
                                     <<j, j + 1>>, Undefined))
  IN  IF BubbleOutOfOrder(st.heap[st.cur], j)
      THEN LET c == spread(st.heap, st.cur)
               h == swapInPlace(c.heap, c.ref, j)
           IN  [st EXCEPT !.heap = h, !.cur = c.ref,
                          !.log = Append(cmp, RefFrame(h, "swap", c.ref, st.srt,
                                              <<j, j + 1>>, Undefined))]
      ELSE [st EXCEPT !.log = cmp]

RECURSIVE RefBubbleInner(_, _, _, _)
RefBubbleInner(st, n, i, j) ==
  IF j < BubbleInnerLimit(n, i)
  THEN RefBubbleInner(RefBubbleCompareSwap(st, j), n, i, j + 1)
  ELSE st

\* a finalize that pushes onto the sorted list the earlier frames refer to
RefBubbleFinalizeInPlace(st, n, i) ==
  LET finalizedIndex == n - i - 1
      h == pushInPlace(st.heap, st.srt, finalizedIndex)
  IN  [st EXCEPT !.heap = h,
                 !.log = Append(st.log, RefFrame(h, "finalized", st.cur, st.srt,
                                    <<finalizedIndex>>, finalizedIndex))]

RefBubbleFinalize(st, n, i) ==
  LET finalizedIndex == n - i - 1
      c == spread(st.heap, st.srt)
      h == pushInPlace(c.heap, c.ref, finalizedIndex)
  IN  [st EXCEPT !.heap = h, !.srt = c.ref,
                 !.log = Append(st.log, RefFrame(h, "finalized", st.cur, c.ref,
                                    <<finalizedIndex>>, finalizedIndex))]

RECURSIVE RefBubbleOuter(_, _, _)
RefBubbleOuter(st, n, i) ==
  IF i < n - 1
  THEN RefBubbleOuter(RefBubbleFinalize(RefBubbleInner(st, n, i, 0), n, i),
                      n, i + 1)
  ELSE st

RefBubbleTail(st) ==
  LET c == spread(st.heap, st.srt)
      h == pushInPlace(c.heap, c.ref, 0)
  IN  [st EXCEPT !.heap = h, !.srt = c.ref,
                 !.log = Append(st.log, RefFrame(h, "finalized", st.cur, c.ref,
                                    <<0>>, 0))]

RefBubbleSortHistory(arr) ==
  RefReturn(RefBubbleTail(RefBubbleOuter(RefStart(arr), Len(arr), 0)))

(* ------------- generateOptimizedBubbleSortHistory ------------- *)

RefOptimizedCompareSwap(st, j) ==
  LET cmp == Append(st.log, RefFrame(st.heap, "comparison", st.cur, st.srt,
                                     <<j, j + 1>>, Undefined))
  IN  IF OptimizedOutOfOrder(st.heap[st.cur], j)
      THEN LET c == spread(st.heap, st.cur)
               h == swapInPlace(c.heap, c.ref, j)
           IN  [st EXCEPT !.heap = h, !.cur = c.ref, !.swapped = TRUE,
                          !.log = Append(cmp, RefFrame(h, "swap", c.ref, st.srt,
                                              <<j, j + 1>>, Undefined))]
      ELSE [st EXCEPT !.log = cmp]

RECURSIVE RefOptimizedInner(_, _, _, _)
RefOptimizedInner(st, n, i, j) ==
  IF j < n - i - 1
  THEN RefOptimizedInner(RefOptimizedCompareSwap(st, j), n, i, j + 1)
  ELSE st

RefOptimizedFinalize(st, n, i) ==
  LET finalizedIndex == n - i - 1
      c == spread(st.heap, st.srt)
      h == pushInPlace(c.heap, c.ref, finalizedIndex)
  IN  [st EXCEPT !.heap = h, !.srt = c.ref,
                 !.log = Append(st.log, RefFrame(h, "finalized", st.cur, c.ref,
                                    <<finalizedIndex>>, finalizedIndex))]

\* for (k = 0; k < finalizedIndex; k++) if (!x.includes(k)) x.push(k),
\* on the array r
RECURSIVE RefFillRemaining(_, _, _, _)
RefFillRemaining(heap, r, k, finalizedIndex) ==
  IF k < finalizedIndex
  THEN RefFillRemaining(IF Includes(heap[r], k) THEN heap
                        ELSE pushInPlace(heap, r, k),
                        r, k + 1, finalizedIndex)
  ELSE heap

RefOptimizedEarlyExit(st, n, i) ==
  LET finalizedIndex == n - i - 1
      c == spread(st.heap, st.srt)
      h == RefFillRemaining(c.heap, c.ref, 0, finalizedIndex)
  IN  [st EXCEPT !.heap = h, !.srt = c.ref, !.exited = TRUE,
                 !.log = Append(st.log, RefFrame(h, "finalized", st.cur, c.ref,
                                    IndexRange(n), 0))]

RECURSIVE RefOptimizedOuter(_, _, _)
RefOptimizedOuter(st, n, i) ==
  IF i < n - 1
  THEN LET pass == RefOptimizedFinalize(
                     RefOptimizedInner([st EXCEPT !.swapped = FALSE], n, i, 0),
                     n, i)
       IN  IF NoSwapInPass(pass)
           THEN RefOptimizedEarlyExit(pass, n, i)
           ELSE RefOptimizedOuter(pass, n, i + 1)
  ELSE st

RefOptimizedTail(st) ==
  IF ~Includes(st.heap[st.srt], 0)
  THEN LET c == spread(st.heap, st.srt)
           h == pushInPlace(c.heap, c.ref, 0)
       IN  [st EXCEPT !.heap = h, !.srt = c.ref,
                      !.log = Append(st.log, RefFrame(h, "finalized", st.cur,
                                         c.ref, <<0>>, 0))]
  ELSE st

RefOptimizedBubbleSortHistory(arr) ==
  RefReturn(RefOptimizedTail(RefOptimizedOuter(RefStart(arr), Len(arr), 0)))

(***************************************************************************)
(* The generators called on an array the caller keeps: after the call the  *)
(* variable array is what the caller finds in it, and sortingHistory what  *)
(* a reader finds in the frames.                                           *)
(***************************************************************************)

RefInit == GenInit

callBubbleByRef ==
  /\ lastOp = "none"
  /\ LET r == RefBubbleSortHistory(array)
     IN  /\ sortingHistory' = r.history
         /\ array' = r.caller
  /\ optimizedChecked' = FALSE
  /\ lastOp' = "generateBubbleSortHistory"
  /\ UNCHANGED <<ARRAY_SIZE, rngState, currentStep, isPlaying, timeoutId, timers,
                 timerDelay, speedValue, rendered, tones, waves>>

callOptimizedByRef ==
  /\ lastOp = "none"
  /\ LET r == RefOptimizedBubbleSortHistory(array)
     IN  /\ sortingHistory' = r.history
         /\ array' = r.caller
  /\ optimizedChecked' = TRUE
  /\ lastOp' = "generateOptimizedBubbleSortHistory"
  /\ UNCHANGED <<ARRAY_SIZE, rngState, currentStep, isPlaying, timeoutId, timers,
                 timerDelay, speedValue, rendered, tones, waves>>

RefNext == callBubbleByRef \/ callOptimizedByRef

RefSpec == RefInit /\ [][RefNext]_vars

(***************************************************************************)
(* The delay of the advance step computed for every position of the speed  *)
(* slider.                                                                 *)
(***************************************************************************)

\* "Speed Slider: 1 (Slow) to 100 (Fast)"
DialRange == 1..100

DelayInit ==
  /\ ARRAY_SIZE = 20
  /\ rngState = 0
  /\ array = <<>>
  /\ sortingHistory = <<>>
  /\ currentStep = 0
  /\ isPlaying = FALSE
  /\ timeoutId = NoTimer
  /\ timers = {}
  /\ timerDelay = 0
  /\ optimizedChecked = FALSE
  /\ speedValue \in DialRange
  /\ lastOp = "none"
  /\ rendered = <<>>
  /\ tones = <<>>
  /\ waves = 0

\* the TIMING block of loop(): the delay handed to setTimeout
computeDelay ==
  /\ lastOp = "none"
  /\ timerDelay' = delayScaled(speedValue)
  /\ lastOp' = "delay"
  /\ UNCHANGED <<ARRAY_SIZE, rngState, array, sortingHistory, currentStep,
                 isPlaying, timeoutId, timers, optimizedChecked, speedValue,
                 rendered, tones, waves>>

DelayNext == computeDelay

DelaySpec == DelayInit /\ [][DelayNext]_vars

(***************************************************************************)
(* generateRandomArray called directly, Math.random() being any multiple   *)
(* of 1/RandomGrain in [0, 1).                                             *)
(***************************************************************************)

\* the numerators k of the values k/RandomGrain of Math.random()
mathRandom == 0..(RandomGrain - 1)

\* Math.floor(Math.random() * 99) + 1 when Math.random() = k/RandomGrain
randomNumOf(k) == (k * 99) \div RandomGrain + 1

\* the array pushed by the loop when its i-th Math.random() is draws[i]
randomArrayOf(size, draws) == [i \in 1..size |-> randomNumOf(draws[i])]

RandInit ==
  /\ ARRAY_SIZE \in 0..MaxRandomSize
  /\ rngState = 0
  /\ array = <<>>
  /\ sortingHistory = <<>>
  /\ currentStep = 0
  /\ isPlaying = FALSE
  /\ timeoutId = NoTimer
  /\ timers = {}
  /\ timerDelay = 0
  /\ optimizedChecked = FALSE
  /\ speedValue = 1
  /\ lastOp = "none"
  /\ rendered = <<>>
  /\ tones = <<>>
  /\ waves = 0

callRandom ==
  /\ lastOp = "none"
  /\ \E draws \in [1..ARRAY_SIZE -> mathRandom] :
       array' = randomArrayOf(ARRAY_SIZE, draws)
  /\ lastOp' = "generateRandomArray"
  /\ UNCHANGED <<ARRAY_SIZE, rngState, sortingHistory, currentStep, isPlaying,
                 timeoutId, timers, timerDelay, optimizedChecked, speedValue,
                 rendered, tones, waves>>

RandNext == callRandom

RandSpec == RandInit /\ [][RandNext]_vars

(***************************************************************************)
(* Vocabulary of the properties.                                           *)
(***************************************************************************)

LastFrame(h) == h[Len(h)]

Ascending(a) == \A k \in 1..(Len(a) - 1) : a[k] <= a[k + 1]

Occurrences(a, v) == Cardinality({k \in 1..Len(a) : a[k] = v})

\* b holds the values of a, each as often as a does
SameValues(a, b) ==
  /\ Len(a) = Len(b)
  /\ \A k \in 1..Len(a) : Occurrences(a, a[k]) = Occurrences(b, a[k])

FramesOfType(h, t) == {p \in 1..Len(h) : h[p].type = t}

\* a generator has returned (GenSpec)
PlainDone == lastOp = "generateBubbleSortHistory"
OptimizedDone == lastOp = "generateOptimizedBubbleSortHistory"
Generated == PlainDone \/ OptimizedDone

\* a finalized frame that locks one position / that covers all n >= 2
SingleFinalized(f) == f.type = "finalized" /\ Len(f.indices) = 1
BulkFinalized(f, n) ==
  f.type = "finalized" /\ n >= 2 /\ f.indices = [x \in 1..n |-> x - 1]

\* frame p of h is the single-index finalized frame that closes a pass in
\* which no swap frame was recorded: the frames back to the previous
\* finalized (or the initial) frame are comparisons, and there is one
NoSwapPassEndsAt(h, p) ==
  /\ p > 1
  /\ SingleFinalized(h[p])
  /\ h[p - 1].type = "comparison"
  /\ \A q \in 1..(p - 1) :
       h[q].type = "swap" =>
         \E r \in (q + 1)..(p - 1) : h[r].type = "finalized"

(***************************************************************************)
(* C1: for every non-empty input and in both modes the last frame's        *)
(* sequence is the input sorted ascending (ascending, with the input's     *)
(* values); so the two modes end with the same sequence.                   *)
(***************************************************************************)
C1_FinalSequenceSorted ==
  (Generated /\ Len(array) >= 1) =>
    /\ Ascending(LastFrame(sortingHistory).array)
    /\ SameValues(array, LastFrame(sortingHistory).array)
    /\ LastFrame(sortingHistory).array
         = LastFrame(generateBubbleSortHistory(array)).array
    /\ LastFrame(sortingHistory).array
         = LastFrame(generateOptimizedBubbleSortHistory(array)).array

C1_Witness ==
  /\ OptimizedDone
  /\ array = <<3, 1, 2>>
  /\ LastFrame(sortingHistory).array = <<1, 2, 3>>

(***************************************************************************)
(* C2: for every non-empty input of length n and in both modes the last    *)
(* frame's sortedIndices holds each of 0..n-1 exactly once and nothing     *)
(* else, on the early-exit path and on the tail-step path alike.           *)
(***************************************************************************)
C2_AllFinalizedOnce ==
  (Generated /\ Len(array) >= 1) =>
    LET sorted == LastFrame(sortingHistory).sortedIndices
    IN  /\ Len(sorted) = Len(array)
        /\ \A k \in 0..(Len(array) - 1) :
             Cardinality({x \in 1..Len(sorted) : sorted[x] = k}) = 1

C2_Witness ==
  /\ OptimizedDone
  /\ array = <<2, 1, 3>>
  /\ LastFrame(sortingHistory).indices = <<0, 1, 2>>
  /\ LastFrame(sortingHistory).sortedIndices = <<2, 1, 0>>

(***************************************************************************)
(* C3: once a history is loaded, whatever the operations and timer         *)
(* firings, 0 <= currentStep <= sortingHistory.length - 1.                 *)
(***************************************************************************)
C3_CursorInRange ==
  Started => (0 <= currentStep /\ currentStep <= Len(sortingHistory) - 1)

C3_Witness ==
  /\ lastOp = "stepForward"
  /\ rendered = <<>>
  /\ currentStep = Len(sortingHistory) - 1
  /\ Len(array) >= 5

(***************************************************************************)
(* C4: at most one scheduled advance is pending in every reachable state,  *)
(* and play() is never executed while a scheduled advance is pending.      *)
(***************************************************************************)
C4_OnePendingAdvance ==
  /\ [](Cardinality(timers) <= 1)
  /\ [][(togglePlay /\ ~isPlaying) => timers = {}]_vars

C4_Witness ==
  /\ lastOp = "play"
  /\ isPlaying
  /\ timers = {timeoutId}
  /\ currentStep >= 2

(***************************************************************************)
(* C5 as stated: play() does not advance the cursor; when it returns the   *)
(* cursor is where it was, or 0 if it was at the last frame.               *)
(***************************************************************************)
C5_PlayKeepsCursor ==
  [][(togglePlay /\ ~isPlaying /\ Len(array) >= MinSize) =>
       currentStep' = IF currentStep < Len(sortingHistory) - 1
                      THEN currentStep ELSE 0]_vars

(***************************************************************************)
(* C5 amended: play() on a loaded history sets running and runs the first  *)
(* advance itself before it returns, scheduling the next one: the cursor   *)
(* is its earlier value plus 1 if that was before the last frame, and 1    *)
(* if it was at the last frame (restart from 0, then one advance).         *)
(***************************************************************************)
C5_PlayAdvancesOnce ==
  [][(togglePlay /\ ~isPlaying) =>
       /\ isPlaying'
       /\ Cardinality(timers') = 1
       /\ rendered' = <<currentStep'>>
       /\ currentStep' = IF currentStep < Len(sortingHistory) - 1
                         THEN currentStep + 1 ELSE 1]_vars

C5_Witness ==
  /\ lastOp = "play"
  /\ isPlaying
  /\ currentStep = 1
  /\ rendered = <<1>>

(***************************************************************************)
(* C6 as stated: in EarlyExit mode a pass without a swap contributes one   *)
(* finalized frame only, the bulk frame, with no single-index finalized    *)
(* frame for that pass; [1,2,3] gives Initial, Comparison(0,1),            *)
(* Comparison(1,2), bulk Finalized.                                        *)
(***************************************************************************)
C6_OnlyBulkFrame ==
  (OptimizedDone /\ BulkFinalized(LastFrame(sortingHistory), Len(array))) =>
    /\ sortingHistory[Len(sortingHistory) - 1].type # "finalized"
    /\ array = <<1, 2, 3>> =>
         /\ Len(sortingHistory) = 4
         /\ [p \in 1..4 |-> sortingHistory[p].type]
              = <<"initial", "comparison", "comparison", "finalized">>

(***************************************************************************)
(* C6 amended: in EarlyExit mode a pass i without a swap contributes two   *)
(* finalized frames: the single-index frame for n-1-i, then at once the    *)
(* bulk frame (index 0, touchedIndices 0..n-1) whose sortedIndices is the  *)
(* single-index frame's followed by the remaining prefix 0..n-2-i; the     *)
(* bulk frame is the last frame and appears nowhere else. [1,2,3] gives    *)
(* Initial, Comparison(0,1), Comparison(1,2), Finalized(2), bulk Finalized.*)
(***************************************************************************)
C6_SingleThenBulkFrame ==
  OptimizedDone =>
    LET h == sortingHistory
        n == Len(array)
    IN  /\ \A p \in 1..Len(h) :
             NoSwapPassEndsAt(h, p) =>
               /\ p + 1 = Len(h)
               /\ BulkFinalized(h[p + 1], n)
               /\ h[p + 1].index = 0
               /\ h[p + 1].array = h[p].array
               /\ h[p + 1].sortedIndices
                    = h[p].sortedIndices \o [x \in 1..h[p].index |-> x - 1]
        /\ \A p \in 1..Len(h) :
             BulkFinalized(h[p], n) =>
               p = Len(h) /\ NoSwapPassEndsAt(h, p - 1)
        /\ array = <<1, 2, 3>> =>
             h = << InitialFrame(<<1, 2, 3>>),
                    ComparisonFrame(<<1, 2, 3>>, <<>>, 0),
                    ComparisonFrame(<<1, 2, 3>>, <<>>, 1),
                    FinalizedFrame(<<1, 2, 3>>, <<2>>, 2, <<2>>),
                    FinalizedFrame(<<1, 2, 3>>, <<2, 0, 1>>, 0, <<0, 1, 2>>) >>

C6_Witness ==
  /\ OptimizedDone
  /\ array = <<1, 2, 3>>
  /\ Len(sortingHistory) = 5
  /\ NoSwapPassEndsAt(sortingHistory, 4)
  /\ BulkFinalized(sortingHistory[5], 3)

(***************************************************************************)
(* C7: in EarlyExit mode an already-sorted input of length n >= 1 gives    *)
(* exactly n-1 comparison frames, for (0,1)..(n-2,n-1) in that order, and  *)
(* no swap frame.                                                          *)
(***************************************************************************)
C7_SortedInputOnePass ==
  (OptimizedDone /\ Len(array) >= 1 /\ Ascending(array)) =>
    LET h == sortingHistory
        n == Len(array)
    IN  /\ Cardinality(FramesOfType(h, "comparison")) = n - 1
        /\ FramesOfType(h, "swap") = {}
        /\ \A j \in 0..(n - 2) :
             h[j + 2].type = "comparison" /\ h[j + 2].indices = <<j, j + 1>>

C7_Witness ==
  /\ OptimizedDone
  /\ array = <<1, 2, 2, 3>>
  /\ Cardinality(FramesOfType(sortingHistory, "comparison")) = 3

(***************************************************************************)
(* C8 as stated: for every already-sorted (non-empty) input the EarlyExit  *)
(* history has strictly fewer frames than the Plain history.               *)
(***************************************************************************)
C8_AlwaysFewerFrames ==
  (OptimizedDone /\ Len(array) >= 1 /\ Ascending(array)) =>
    Len(sortingHistory) < Len(generateBubbleSortHistory(array))

(***************************************************************************)
(* C8 amended: for every already-sorted input of length n >= 3 the         *)
(* EarlyExit history (n + 2 frames) has strictly fewer frames than the     *)
(* Plain history (1 + n(n-1)/2 + n frames); for n <= 2 the two histories   *)
(* have the same number of frames.                                         *)
(***************************************************************************)
C8_FewerFramesFromThree ==
  (OptimizedDone /\ Ascending(array)) =>
    LET n == Len(array)
        plain == generateBubbleSortHistory(array)
    IN  /\ Len(plain) = 1 + (n * (n - 1)) \div 2 + n \/ n = 0
        /\ n >= 2 => Len(sortingHistory) = n + 2
        /\ n >= 3 => Len(sortingHistory) < Len(plain)
        /\ n <= 2 => Len(sortingHistory) = Len(plain)

C8_Witness ==
  /\ OptimizedDone
  /\ array = <<1, 1, 2, 3>>
  /\ Len(sortingHistory) = 6
  /\ Len(generateBubbleSortHistory(array)) = 11

(***************************************************************************)
(* C9: in Plain mode every input of length n >= 1 gives exactly n(n-1)/2   *)
(* comparison frames, whatever its values.                                 *)
(***************************************************************************)
C9_PlainComparisonCount ==
  (PlainDone /\ Len(array) >= 1) =>
    Cardinality(FramesOfType(sortingHistory, "comparison"))
      = (Len(array) * (Len(array) - 1)) \div 2

C9_Witness ==
  /\ PlainDone
  /\ array = <<1, 2, 3, 3>>
  /\ Cardinality(FramesOfType(sortingHistory, "comparison")) = 6

(***************************************************************************)
(* C10: in both modes a frame's sequence equals its predecessor's unless   *)
(* the frame is a swap, and then it is the predecessor's with exactly the  *)
(* adjacent pair (j, j+1) of the frame's touchedIndices exchanged;         *)
(* comparison and finalized frames never change it, nor does the length    *)
(* ever change.                                                            *)
(***************************************************************************)
C10_OnlySwapsChangeSequence ==
  Generated =>
    \A p \in 2..Len(sortingHistory) :
      LET prev == sortingHistory[p - 1].array
          cur == sortingHistory[p].array
          j == sortingHistory[p].indices[1]
      IN  /\ Len(cur) = Len(array)
          /\ sortingHistory[p].type # "swap" => cur = prev
          /\ sortingHistory[p].type = "swap" =>
               /\ sortingHistory[p].indices = <<j, j + 1>>
               /\ j >= 0 /\ j + 2 <= Len(cur)
               /\ cur # prev
               /\ \A k \in 1..Len(cur) :
                    cur[k] = IF k = j + 1 THEN prev[j + 2]
                             ELSE IF k = j + 2 THEN prev[j + 1]
                             ELSE prev[k]

C10_Witness ==
  /\ PlainDone
  /\ array = <<2, 1, 1>>
  /\ sortingHistory[3].type = "swap"
  /\ sortingHistory[3].array = <<1, 2, 1>>
  /\ sortingHistory[5].array = <<1, 1, 2>>

(***************************************************************************)
(* C11: in both modes the comparison frame for (j, j+1) is followed at     *)
(* once by a swap frame for (j, j+1) exactly when sequence[j] >            *)
(* sequence[j+1] in the comparison frame; a comparison of equal values is  *)
(* never followed by a swap, and a swap frame only ever follows the        *)
(* comparison of its pair.                                                 *)
(***************************************************************************)
SwapFollows(h, p) ==
  /\ p + 1 <= Len(h)
  /\ h[p + 1].type = "swap"
  /\ h[p + 1].indices = h[p].indices

C11_SwapIffStrictlyGreater ==
  Generated =>
    LET h == sortingHistory
    IN  /\ \A p \in FramesOfType(h, "comparison") :
             LET j == h[p].indices[1]
             IN  /\ SwapFollows(h, p) <=> h[p].array[j + 1] > h[p].array[j + 2]
                 /\ h[p].array[j + 1] = h[p].array[j + 2] => ~SwapFollows(h, p)
        /\ \A p \in FramesOfType(h, "swap") :
             h[p - 1].type = "comparison" /\ h[p - 1].indices = h[p].indices

C11_Witness ==
  /\ PlainDone
  /\ array = <<2, 2, 1>>
  /\ sortingHistory[2].type = "comparison"
  /\ sortingHistory[3].type = "comparison"
  /\ sortingHistory[4].type = "swap"
  /\ sortingHistory[4].indices = <<1, 2>>

(***************************************************************************)
(* C12: in both modes the sortedIndices of a frame is a prefix of the      *)
(* sortedIndices of the next frame (never shorter, never reordered), and   *)
(* no frame's sortedIndices holds a position twice.                        *)
(***************************************************************************)
IsPrefix(s, t) ==
  /\ Len(s) <= Len(t)
  /\ \A x \in 1..Len(s) : s[x] = t[x]

NoRepeats(s) ==
  \A x \in 1..Len(s) : \A y \in 1..Len(s) : s[x] = s[y] => x = y

C12_SortedIndicesGrow ==
  Generated =>
    /\ \A p \in 2..Len(sortingHistory) :
         IsPrefix(sortingHistory[p - 1].sortedIndices,
                  sortingHistory[p].sortedIndices)
    /\ \A p \in 1..Len(sortingHistory) :
         NoRepeats(sortingHistory[p].sortedIndices)

C12_Witness ==
  /\ OptimizedDone
  /\ array = <<1, 3, 2, 3>>
  /\ LastFrame(sortingHistory).sortedIndices = <<3, 2, 0, 1>>
  /\ sortingHistory[Len(sortingHistory) - 1].sortedIndices = <<3, 2>>

(***************************************************************************)
(* C13: in both modes and for every input, frame 0 is an initial frame     *)
(* with no touched index, no sorted index and the input as its sequence,   *)
(* and no later frame is an initial frame.                                 *)
(***************************************************************************)
C13_InitialFrameFirstOnly ==
  Generated =>
    /\ Len(sortingHistory) >= 1
    /\ sortingHistory[1].type = "initial"
    /\ sortingHistory[1].indices = <<>>
    /\ sortingHistory[1].sortedIndices = <<>>
    /\ sortingHistory[1].array = array
    /\ \A p \in 2..Len(sortingHistory) : sortingHistory[p].type # "initial"

C13_Witness ==
  /\ OptimizedDone
  /\ array = <<3, 2>>
  /\ sortingHistory[1] = [type |-> "initial", array |-> <<3, 2>>,
                          indices |-> <<>>, sortedIndices |-> <<>>,
                          index |-> Undefined]
  /\ Len(sortingHistory) = 5

(***************************************************************************)
(* Playback vocabulary.                                                    *)
(***************************************************************************)

LastIndex == Len(sortingHistory) - 1

\* the operations that stop playback
StoppingOps ==
  {"pause", "stepForward", "stepBack", "reset", "init", "calculateHistory"}

\* a handler invoked by the user, as opposed to a timer callback
UserOperation ==
  init \/ toggleOptimized \/ togglePlay \/ stepForward \/ stepBack \/ reset
       \/ setSpeed

\* the tone the spec assigns to a kind of frame
ToneOfKind(t) ==
  CASE t = "comparison" -> <<"playCompare">>
    [] t = "swap"       -> <<"playSwap">>
    [] t = "finalized"  -> <<"playSorted">>
    [] OTHER            -> <<>>

\* the last handler was an advance step that moved the cursor
AdvanceMoved == lastOp \in {"loop", "play"} /\ rendered # <<>>

\* a run has ended of itself
RunEnded ==
  /\ ~isPlaying
  /\ currentStep = LastIndex
  /\ timers = {}
  /\ waves = 1

(***************************************************************************)
(* C14: after pause, stepForward, stepBack, reset or a load returns,       *)
(* running is false and no scheduled advance is pending, whatever the      *)
(* state it was invoked in; so no timer callback follows, and the cursor   *)
(* does not change again until the next user operation.                    *)
(***************************************************************************)
C14_QuietAfterStop ==
  /\ [](lastOp \in StoppingOps => ~isPlaying /\ timers = {})
  /\ [][(lastOp \in StoppingOps) => lastOp' # "loop"]_vars
  /\ [][(lastOp \in StoppingOps /\ ~UserOperation)
          => currentStep' = currentStep]_vars

\* a run paused in its middle, the scheduled advance cancelled
C14_Witness ==
  /\ lastOp = "pause"
  /\ currentStep >= 2
  /\ currentStep < LastIndex
  /\ timeoutId # NoTimer
  /\ timers = {}
  /\ ~isPlaying

(***************************************************************************)
(* C15: stepBack at cursor 0 and stepForward at the last index leave the   *)
(* cursor unchanged and render nothing; stepForward below the last index   *)
(* adds exactly 1 and stepBack above 0 subtracts exactly 1, and the frame  *)
(* at the new cursor is rendered.                                          *)
(***************************************************************************)
C15_StepsMoveByOneOrNotAtAll ==
  /\ [][stepForward =>
          IF currentStep = LastIndex
          THEN currentStep' = currentStep /\ rendered' = <<>>
          ELSE currentStep' = currentStep + 1
               /\ rendered' = <<currentStep + 1>>]_vars
  /\ [][stepBack =>
          IF currentStep = 0
          THEN currentStep' = currentStep /\ rendered' = <<>>
          ELSE currentStep' = currentStep - 1
               /\ rendered' = <<currentStep - 1>>]_vars

\* stepBack at the first frame
C15_Witness ==
  /\ lastOp = "stepBack"
  /\ currentStep = 0
  /\ rendered = <<>>
  /\ Len(sortingHistory) > MinSize

(***************************************************************************)
(* C16: tones come only from the advance step: an advance that moves the   *)
(* cursor plays exactly the one tone of the kind of the frame it enters    *)
(* (comparison: playCompare, swap: playSwap, finalized: playSorted), an    *)
(* advance step that does not move plays none, and load, reset, pause,     *)
(* stepForward and stepBack play none.                                     *)
(***************************************************************************)
C16_TonesOnlyFromAdvance ==
  /\ lastOp \in StoppingOps => tones = <<>>
  /\ AdvanceMoved =>
       /\ rendered = <<currentStep>>
       /\ sortingHistory[currentStep + 1].type
            \in {"comparison", "swap", "finalized"}
       /\ tones = ToneOfKind(sortingHistory[currentStep + 1].type)
       /\ Len(tones) = 1
  /\ (lastOp \in {"loop", "play"} /\ rendered = <<>>) => tones = <<>>
  /\ lastOp = "none" => tones = <<>>

\* a timer callback has entered a swap frame
C16_Witness ==
  /\ lastOp = "loop"
  /\ rendered = <<currentStep>>
  /\ sortingHistory[currentStep + 1].type = "swap"
  /\ tones = <<"playSwap">>

(***************************************************************************)
(* C17: run-complete is signalled only by an advance step that finds       *)
(* running true and the cursor already at the last frame, where an earlier *)
(* advance step had put it; stepForward, stepBack, reset, pause and load   *)
(* never signal it, and it is not signalled again without another play().  *)
(***************************************************************************)
C17_WaveOnlyAtNaturalEnd ==
  /\ [](waves = 1 => /\ lastOp = "loop"
                     /\ ~isPlaying
                     /\ timers = {}
                     /\ currentStep = LastIndex)
  /\ [][waves' = 1 /\ lastOp' # lastOp =>
          /\ timerFires
          /\ isPlaying
          /\ currentStep = LastIndex
          /\ AdvanceMoved
          /\ rendered = <<LastIndex>>
          /\ waves = 0]_vars
  /\ [][waves = 1 /\ ~togglePlay => waves' = 0 \/ UNCHANGED
          <<currentStep, isPlaying, timers, lastOp, rendered, tones>>]_vars

\* the run of a paused-and-resumed history has just ended
C17_Witness ==
  /\ waves = 1
  /\ lastOp = "loop"
  /\ currentStep = LastIndex
  /\ Len(sortingHistory) > MinSize
  /\ optimizedChecked

(***************************************************************************)
(* C18: when play() is called on a loaded history and the user then leaves *)
(* the page alone, and every scheduled callback eventually fires, the run  *)
(* ends: the cursor is at the last index, running is false, nothing is     *)
(* pending, and run-complete has been signalled, once, by the ending step  *)
(* and by no step of the run before it.                                    *)
(***************************************************************************)
C18_RunEventuallyEnds ==
  /\ isPlaying ~> RunEnded
  /\ [](isPlaying => waves = 0)
  /\ [][(waves' = 1 /\ ~setSpeed) =>
          isPlaying /\ ~isPlaying' /\ waves = 0]_vars

\* a run over a whole history has ended
C18_Witness ==
  /\ RunEnded
  /\ lastOp = "loop"
  /\ Len(array) >= MinSize
  /\ currentStep > Len(array)

(***************************************************************************)
(* C19: after a load (init or calculateHistory), in whatever state it was  *)
(* invoked, the cursor is 0, running is false, the history is the one the  *)
(* selected mode generates from the current array, and frame 0 is shown.   *)
(***************************************************************************)
C19_LoadResetsPlayback ==
  lastOp \in {"init", "calculateHistory"} =>
    /\ currentStep = 0
    /\ ~isPlaying
    /\ timers = {}
    /\ sortingHistory = (IF optimizedChecked
                         THEN generateOptimizedBubbleSortHistory(array)
                         ELSE generateBubbleSortHistory(array))
    /\ rendered = <<0>>
    /\ tones = <<>>

\* the checkbox was ticked after a run had been scheduled
C19_Witness ==
  /\ lastOp = "calculateHistory"
  /\ optimizedChecked
  /\ timeoutId # NoTimer
  /\ Len(array) >= MinSize
  /\ sortingHistory[1].type = "initial"
  /\ rendered = <<0>>

RandomDone == lastOp = "generateRandomArray"

C21_ValuesAreOneToHundred ==
  RandomDone =>
    /\ Len(array) = ARRAY_SIZE
    /\ \A k \in 1..Len(array) : array[k] \in 1..100
    /\ \A v \in 1..100 : \E r \in mathRandom : randomNumOf(r) = v

\* what the code does give: every value of 1..99 and no other
C21_ValuesAreOneToNinetyNine ==
  RandomDone =>
    /\ Len(array) = ARRAY_SIZE
    /\ \A k \in 1..Len(array) : array[k] \in 1..99
    /\ \A v \in 1..99 : \E r \in mathRandom : randomNumOf(r) = v

(***************************************************************************)
(* C22: whatever the size input holds (an integer below 5 or above 100, or *)
(* text that is not a number), after init() the size kept and the length   *)
(* of the array handed to the generator lie within 5..100.                 *)
(***************************************************************************)
C22_LoadedSizeClamped ==
  lastOp = "init" =>
    /\ ARRAY_SIZE \in MinSize..MaxSize
    /\ Len(array) = ARRAY_SIZE
    /\ Len(sortingHistory[1].array) \in MinSize..MaxSize

(***************************************************************************)
(* C23: neither generator modifies the array passed by the caller: after   *)
(* the call the caller's array holds the same elements in the same order   *)
(* as before, for every input.                                             *)
(***************************************************************************)
C23_CallerArrayUntouched ==
  /\ [][RefNext => array' = array]_vars
  /\ [](Generated => array = sortingHistory[1].arrayAtPush)

\* an unsorted input was sorted in the frames and is still unsorted
C23_Witness ==
  /\ PlainDone
  /\ array = <<3, 1, 2>>
  /\ sortingHistory[1].arrayRef # CallerRef
  /\ FramesOfType(sortingHistory, "swap") # {}
  /\ LastFrame(sortingHistory).array = <<1, 2, 3>>

(***************************************************************************)
(* C27: a frame once pushed keeps the contents of its sequence and of its  *)
(* sortedIndices to the end of generation, although consecutive frames     *)
(* share arrays: each swap and each finalize, the bulk finalize of the     *)
(* early exit included, writes to a fresh copy and never to an array an    *)
(* earlier frame refers to; the sharing is not observable.                 *)
(***************************************************************************)
\* a frame as the generators over values record it
ValueFrame(f) ==
  [type |-> f.type, array |-> f.array, indices |-> f.indices,
   sortedIndices |-> f.sortedIndices, index |-> f.index]

C27_PushedFramesNeverChange ==
  Generated =>
    LET h == sortingHistory
    IN  /\ \A p \in 1..Len(h) :
             /\ h[p].array = h[p].arrayAtPush
             /\ h[p].sortedIndices = h[p].sortedAtPush
        /\ \A p \in FramesOfType(h, "swap") :
             \A q \in 1..(p - 1) : h[q].arrayRef # h[p].arrayRef
        /\ \A p \in FramesOfType(h, "finalized") :
             \A q \in 1..(p - 1) : h[q].sortedRef # h[p].sortedRef
        /\ [p \in 1..Len(h) |-> ValueFrame(h[p])]
             = (IF OptimizedDone
                THEN generateOptimizedBubbleSortHistory(array)
                ELSE generateBubbleSortHistory(array))

\* an early exit: the comparison shares the array of the initial frame, the
\* bulk frame has a sorted list of its own
C27_Witness ==
  /\ OptimizedDone
  /\ array = <<1, 2, 3>>
  /\ Len(sortingHistory) = 5
  /\ sortingHistory[2].arrayRef = sortingHistory[1].arrayRef
  /\ sortingHistory[3].sortedRef = sortingHistory[1].sortedRef
  /\ sortingHistory[4].sortedIndices = <<2>>
  /\ sortingHistory[5].sortedIndices = <<2, 0, 1>>
  /\ sortingHistory[5].sortedRef # sortingHistory[4].sortedRef

(***************************************************************************)
(* C24: for every integer dial in 1..100 the delay of the advance step,    *)
(* 500 - (dial/100)*499, lies in [1, 500], is strictly decreasing in the   *)
(* dial, and is exactly 1 at dial 100 and 495.01 at dial 1; in hundredths: *)
(* 100*delay = 50000 - 499*dial.                                           *)
(***************************************************************************)
C24_DelayWithinRangeAndDecreasing ==
  lastOp = "delay" =>
    /\ timerDelay = 50000 - 499 * speedValue
    /\ timerDelay >= 100 * 1
    /\ timerDelay <= 100 * 500
    /\ \A d \in DialRange : d < speedValue => delayScaled(d) > timerDelay
    /\ speedValue = 100 => timerDelay = 100
    /\ speedValue = 1 => timerDelay = 49501

\* the fastest position of the slider
C24_Witness ==
  /\ lastOp = "delay"
  /\ speedValue = 100
  /\ timerDelay = 100

(***************************************************************************)
(* C25: a change of the speed dial changes neither the cursor, the running *)
(* flag nor the pending scheduled advance, which is neither cancelled nor  *)
(* rescheduled; the new value only sets the delay of the advances          *)
(* scheduled after the change.                                             *)
(***************************************************************************)
C25_DialLeavesPendingAdvance ==
  /\ [][setSpeed => /\ speedValue' # speedValue
                    /\ UNCHANGED <<currentStep, isPlaying, timers, timeoutId,
                                   timerDelay, rendered, tones, waves>>]_vars
  /\ [][((togglePlay \/ timerFires) /\ timers' # {})
          => timerDelay' = delayScaled(speedValue)]_vars

\* the dial was moved while an advance is pending: the pending one keeps
\* the delay of the old position
C25_Witness ==
  /\ isPlaying
  /\ timers # {}
  /\ speedValue = 100
  /\ timerDelay = delayScaled(1)
  /\ currentStep >= 1

(***************************************************************************)
(* C26: in plain mode, after the initial frame, each outer pass i of       *)
(* 0..n-2 gives the comparison frames of (j, j+1) for j = 0..n-i-2 in      *)
(* increasing j, each followed at once by its swap frame when the pair is  *)
(* out of order, then exactly one finalized frame whose index and indices  *)
(* are n-1-i; the history ends with one finalized frame for index 0.  For  *)
(* [5,3,8,1] it begins Initial, Comparison(0,1), Swap [3,5,8,1],           *)
(* Comparison(1,2), Comparison(2,3), Swap [3,5,1,8], Finalized(3).         *)
(***************************************************************************)
\* the frames of h from position p on are those of pass i from pair j on,
\* the later passes and the closing frame
RECURSIVE PlainShapeFrom(_, _, _, _, _)
PlainShapeFrom(h, p, n, i, j) ==
  IF i > n - 2
  THEN /\ p = Len(h)
       /\ h[p].type = "finalized"
       /\ h[p].index = 0
       /\ h[p].indices = <<0>>
  ELSE IF j > n - i - 2
  THEN /\ p <= Len(h)
       /\ h[p].type = "finalized"
       /\ h[p].index = n - 1 - i
       /\ h[p].indices = <<n - 1 - i>>
       /\ PlainShapeFrom(h, p + 1, n, i + 1, 0)
  ELSE /\ p <= Len(h)
       /\ h[p].type = "comparison"
       /\ h[p].indices = <<j, j + 1>>
       /\ IF h[p].array[j + 1] > h[p].array[j + 2]
          THEN /\ p + 1 <= Len(h)
               /\ h[p + 1].type = "swap"
               /\ h[p + 1].indices = <<j, j + 1>>
               /\ PlainShapeFrom(h, p + 2, n, i, j + 1)
          ELSE PlainShapeFrom(h, p + 1, n, i, j + 1)

\* type, touched positions and sequence of the first frames for [5,3,8,1]
ScenarioOpening ==
  << <<"initial",    <<>>,     <<5, 3, 8, 1>> >>,
     <<"comparison", <<0, 1>>, <<5, 3, 8, 1>> >>,
     <<"swap",       <<0, 1>>, <<3, 5, 8, 1>> >>,
     <<"comparison", <<1, 2>>, <<3, 5, 8, 1>> >>,
     <<"comparison", <<2, 3>>, <<3, 5, 8, 1>> >>,
     <<"swap",       <<2, 3>>, <<3, 5, 1, 8>> >>,
     <<"finalized",  <<3>>,    <<3, 5, 1, 8>> >> >>

C26_PlainHistoryShape ==
  PlainDone =>
    LET h == sortingHistory
    IN  /\ Len(h) >= 2
        /\ h[1].type = "initial"
        /\ PlainShapeFrom(h, 2, Len(array), 0, 0)
        /\ array = <<5, 3, 8, 1>> =>
             /\ Len(h) >= Len(ScenarioOpening)
             /\ \A p \in 1..Len(ScenarioOpening) :
                  <<h[p].type, h[p].indices, h[p].array>> = ScenarioOpening[p]
             /\ h[7].index = 3

\* the scenario input has been run through the plain generator
C26_Witness ==
  /\ PlainDone
  /\ array = <<5, 3, 8, 1>>
  /\ sortingHistory[3].type = "swap"
  /\ sortingHistory[3].array = <<3, 5, 8, 1>>
  /\ sortingHistory[7].type = "finalized"
  /\ LastFrame(sortingHistory).array = <<1, 3, 5, 8>>

(***************************************************************************)
(* C28: for every input, the empty sequence and a singleton included,      *)
(* every position named by a frame, in indices, index or sortedIndices, is *)
(* a valid index of the sequence: it lies in 0..n-1, n the input length.   *)
(***************************************************************************)
ValidPositions(s, n) == \A k \in 1..Len(s) : s[k] \in 0..(n - 1)

C28_PositionsAreValid ==
  Generated =>
    \A p \in 1..Len(sortingHistory) :
      LET f == sortingHistory[p]
      IN  /\ ValidPositions(f.indices, Len(array))
          /\ ValidPositions(f.sortedIndices, Len(array))
          /\ f.type = "finalized" => f.index \in 0..(Len(array) - 1)

\* the same, for the inputs that have a position 0
C28_PositionsAreValidNonEmpty ==
  (Generated /\ Len(array) >= 1) =>
    \A p \in 1..Len(sortingHistory) :
      LET f == sortingHistory[p]
      IN  /\ ValidPositions(f.indices, Len(array))
          /\ ValidPositions(f.sortedIndices, Len(array))
          /\ f.type = "finalized" => f.index \in 0..(Len(array) - 1)

(***************************************************************************)
(* C29: in every frame of either mode each position listed in the frame's  *)
(* sortedIndices already holds the value it has in the final sorted        *)
(* sequence, and no later swap frame touches a position that is already    *)
(* in sortedIndices: a finalized position's value never changes again.     *)
(***************************************************************************)
\* a[k] as JavaScript reads it
ValueAt(a, k) == IF k + 1 \in 1..Len(a) THEN a[k + 1] ELSE Undefined

C29_FinalizedPositionsAreFinal ==
  Generated =>
    LET h == sortingHistory
        final == LastFrame(h).array
    IN  /\ Ascending(final)
        /\ \A p \in 1..Len(h) :
             \A x \in 1..Len(h[p].sortedIndices) :
               LET k == h[p].sortedIndices[x]
               IN  /\ ValueAt(h[p].array, k) = ValueAt(final, k)
                   /\ \A q \in p..Len(h) :
                        ValueAt(h[q].array, k) = ValueAt(h[p].array, k)
        /\ \A p \in FramesOfType(h, "swap") :
             \A q \in 1..p :
               /\ ~Includes(h[q].sortedIndices, h[p].indices[1])
               /\ ~Includes(h[q].sortedIndices, h[p].indices[2])

\* a swap in the second pass, after position 2 was finalized
C29_Witness ==
  /\ OptimizedDone
  /\ array = <<3, 2, 1>>
  /\ sortingHistory[6].sortedIndices = <<2>>
  /\ sortingHistory[6].array = <<2, 1, 3>>
  /\ sortingHistory[8].type = "swap"
  /\ sortingHistory[8].indices = <<0, 1>>
  /\ sortingHistory[8].array = <<1, 2, 3>>

(***************************************************************************)
(* C30: for every input the early-exit history is either identical to the  *)
(* plain history of the same input, or a proper prefix of the plain        *)
(* history that ends at a single-index finalized frame, followed by        *)
(* exactly one bulk finalized frame; in both cases it is never longer      *)
(* than the plain history.                                                 *)
(***************************************************************************)
\* o is a proper prefix of b ending at a single-index finalized frame, and
\* then one bulk finalized frame
PrefixThenBulk(o, b, n) ==
  /\ Len(o) >= 3
  /\ Len(o) - 1 < Len(b)
  /\ IsPrefix(SubSeq(o, 1, Len(o) - 1), b)
  /\ SingleFinalized(o[Len(o) - 1])
  /\ BulkFinalized(o[Len(o)], n)
  /\ \A p \in 1..(Len(o) - 1) : ~BulkFinalized(o[p], n)

C30_EarlyExitIsPlainOrPrefix ==
  OptimizedDone =>
    LET o == sortingHistory
        b == generateBubbleSortHistory(array)
    IN  /\ o = b \/ PrefixThenBulk(o, b, Len(array))
        /\ Len(o) <= Len(b)

\* a sorted input: four frames of the plain history, then the bulk frame
C30_Witness ==
  /\ OptimizedDone
  /\ array = <<1, 2, 3>>
  /\ Len(sortingHistory) = 5
  /\ Len(generateBubbleSortHistory(array)) = 7
  /\ sortingHistory # generateBubbleSortHistory(array)
  /\ PrefixThenBulk(sortingHistory, generateBubbleSortHistory(array), 3)

(***************************************************************************)
(* C31: in both modes the number of swap frames of the history equals the  *)
(* number of inversions of the input, the pairs of positions a < b with    *)
(* input[a] > input[b]; an input without inversion yields no swap frame.   *)
(***************************************************************************)
Inversions(a) ==
  Cardinality({pr \in (1..Len(a)) \X (1..Len(a)) :
                 pr[1] < pr[2] /\ a[pr[1]] > a[pr[2]]})

C31_SwapsEqualInversions ==
  Generated =>
    /\ Cardinality(FramesOfType(sortingHistory, "swap")) = Inversions(array)
    /\ Ascending(array) => FramesOfType(sortingHistory, "swap") = {}

\* a reversed input: three inversions, three swap frames
C31_Witness ==
  /\ OptimizedDone
  /\ array = <<3, 2, 1>>
  /\ Inversions(array) = 3
  /\ Cardinality(FramesOfType(sortingHistory, "swap")) = 3

(***************************************************************************)
(* C32: during auto-play every advance step that runs with running true    *)
(* and the cursor below the last index adds exactly 1 to the cursor and    *)
(* renders exactly the frame at the new cursor; so in a run the user       *)
(* leaves alone the frames are rendered in consecutive increasing order    *)
(* up to the last one, none skipped and none repeated.                     *)
(***************************************************************************)
C32_FramesRenderedInOrder ==
  /\ [][(timerFires /\ isPlaying /\ currentStep < LastIndex) =>
          /\ currentStep' = currentStep + 1
          /\ rendered' = <<currentStep + 1>>
          /\ isPlaying']_vars
  /\ [][(isPlaying /\ isPlaying') =>
          /\ timerFires
          /\ currentStep' = currentStep + 1
          /\ rendered' = <<currentStep'>>]_vars
  /\ [][(isPlaying /\ ~isPlaying') =>
          /\ currentStep = LastIndex
          /\ currentStep' = currentStep
          /\ rendered' = <<>>]_vars
  /\ [][(~isPlaying /\ isPlaying') => rendered' = <<currentStep'>>]_vars
  /\ isPlaying ~> (currentStep = LastIndex /\ rendered = <<LastIndex>>)

\* a timer callback has just drawn the last frame of a run
C32_Witness ==
  /\ lastOp = "loop"
  /\ isPlaying
  /\ Len(array) >= MinSize
  /\ currentStep = LastIndex
  /\ rendered = <<LastIndex>>

(***************************************************************************)
(* C33: the master array is changed only by init(): play, pause, the       *)
(* steps, reset and the change of mode leave it unchanged, and the         *)
(* playback operations leave the history unchanged; so after any sequence  *)
(* of operations the sequence of the initial frame equals the master       *)
(* array, and a change of mode sorts the same data again.                  *)
(***************************************************************************)
PlaybackOperation ==
  togglePlay \/ timerFires \/ stepForward \/ stepBack \/ reset \/ setSpeed

C33_ArrayChangedOnlyByInit ==
  /\ [][(array' # array) => init]_vars
  /\ [][PlaybackOperation =>
          array' = array /\ sortingHistory' = sortingHistory]_vars
  /\ [][toggleOptimized =>
          /\ array' = array
          /\ sortingHistory'[1].array = array
          /\ Ascending(LastFrame(sortingHistory').array)
          /\ SameValues(LastFrame(sortingHistory').array, array)]_vars
  /\ [](Started => /\ sortingHistory[1].type = "initial"
                   /\ sortingHistory[1].array = array)

\* the mode was changed after some playback, on an unsorted master array
C33_Witness ==
  /\ lastOp = "calculateHistory"
  /\ ~optimizedChecked
  /\ timeoutId # NoTimer
  /\ Len(array) >= MinSize
  /\ ~Ascending(array)
  /\ sortingHistory[1].array = array
  /\ Ascending(LastFrame(sortingHistory).array)

====
